---- MODULE Spec2Model ----
(***************************************************************************)
(* Lazy minting: the off-chain voucher signer (lib/index.js, LazyMinter)   *)
(* and the on-chain verifier and redeemer (contracts/LazyNFT.sol).         *)
(*                                                                         *)
(* Hashes are modelled symbolically: keccak256 of a byte string is the     *)
(* string "keccak(<bytes>)", so two digests are equal exactly when the     *)
(* bytes hashed are equal (a collision-free hash).  A signature is the     *)
(* pair (key, message hash); recovering it against another hash yields an  *)
(* address that belongs to nobody.                                         *)
(***************************************************************************)
EXTENDS Integers, Sequences, FiniteSets, TLC

VARIABLES
  _domain,     \* LazyMinter: this._domain, <<>> while unset, <<d>> once cached
  calls,       \* LazyMinter: one record per createVoucher call (its position and locals)
  fetches,     \* LazyMinter: number of signer.getChainId() requests sent so far
  minter,      \* LazyNFT: the constructor's argument
  roles,       \* LazyNFT: the accounts holding MINTER_ROLE
  owners,      \* ERC721: _owners, ZERO for a token that does not exist
  tokenURIs,   \* ERC721URIStorage: _tokenURIs
  balances,    \* the ledger's native balances
  redeemed,    \* history: number of committed redeem calls per tokenId
  untouched,   \* history: TRUE until the first redeem call arrives
  last         \* history: the last redeem call, its arguments, outcome and events

vars == <<_domain, calls, fetches, minter, roles, owners, tokenURIs, balances, redeemed,
          untouched, last>>

minterVars == <<_domain, calls, fetches>>
chainVars == <<minter, roles, owners, tokenURIs, balances, redeemed, untouched, last>>

(***************************************************************************)
(* Bounds                                                                  *)
(***************************************************************************)
MaxTokenId == 2
MaxPrice == 1
InitialFunds == 1
MaxCalls == 2

(***************************************************************************)
(* Accounts, chains, vouchers                                              *)
(***************************************************************************)
ZERO == "0x0000"
CONTRACT == "0xCCCC"
OTHER_CONTRACT == "0xDDDD"
Issuer == "0xA155"
Vault == "0xBA17"
Buyer == "0xB0B0"

\* accounts that own a private key; the key is named by its address
Keys == {Issuer, Vault, Buyer}
Accounts == {Issuer, Vault, Buyer, CONTRACT}
\* accounts whose code accepts a plain value transfer; Vault's code rejects it
Payable == {Issuer, Buyer}

block_chainid == 31337
ChainIds == {1, block_chainid}

TokenIds == 1..MaxTokenId
Prices == 0..MaxPrice
URIs == {"ipfs://abc", "ipfs://xyz"}
Vouchers == [tokenId : TokenIds, minPrice : Prices, uri : URIs]

SIGNING_DOMAIN_NAME == "LazyNFT-Voucher"
SIGNING_DOMAIN_VERSION == "1"

(***************************************************************************)
(* Byte strings and hashing                                                *)
(***************************************************************************)
keccak256(bytes) == "keccak(" \o bytes \o ")"

\* one 32-byte word holding an unsigned integer
uint256(n) == "u" \o ToString(n)
\* one 32-byte word holding an address
address(a) == "a" \o a

\* the words of an ABI encoding, joined
Words4(a, b, c, d) == a \o "|" \o b \o "|" \o c \o "|" \o d
Words5(a, b, c, d, e) == a \o "|" \o b \o "|" \o c \o "|" \o d \o "|" \o e

\* abi.encode of a dynamic bytes value that follows three static words: the head
\* holds the offset of the tail (4 words = 128 bytes), the tail the length and data
DynamicBytes(s) == uint256(128) \o "|" \o uint256(Len(s)) \o "|" \o s

EIP712DomainType == "EIP712Domain(string name,string version,uint256 chainId,address verifyingContract)"

TypedDataHash(domainSeparator, structHash) ==
  keccak256("0x1901" \o domainSeparator \o structHash)

(***************************************************************************)
(* lib/index.js: what ethers-eip712 computes from this.types               *)
(***************************************************************************)
\* encodeType("NFTVoucher") from the field list of this.types
NFTVoucherType == "NFTVoucher(uint256 tokenId,uint256 minPrice,string uri)"

\* hashStruct("EIP712Domain", domain)
hashDomain(domain) ==
  keccak256(Words5(keccak256(EIP712DomainType),
                   keccak256(domain.name),
                   keccak256(domain.version),
                   uint256(domain.chainId),
                   address(domain.verifyingContract)))

\* hashStruct("NFTVoucher", voucher): a string field is encoded as its hash
hashVoucher(voucher) ==
  keccak256(Words4(keccak256(NFTVoucherType),
                   uint256(voucher.tokenId),
                   uint256(voucher.minPrice),
                   keccak256(voucher.uri)))

\* TypedDataUtils.encodeDigest(typedData)
encodeDigest(domain, voucher) == TypedDataHash(hashDomain(domain), hashVoucher(voucher))

\* signer.signMessage(bytes): the bytes are hashed under the personal-message
\* prefix ("\x19Ethereum Signed Message:\n" and their length) and then signed
hashMessage(bytes) == keccak256("0x19 Ethereum Signed Message: 32 " \o bytes)
signMessage(key, bytes) == [by |-> key, over |-> hashMessage(bytes), len |-> 65]

\* the domain object _signingDomain builds
SigningDomain(contractAddress, chainId) ==
  [name |-> SIGNING_DOMAIN_NAME, version |-> SIGNING_DOMAIN_VERSION,
   verifyingContract |-> contractAddress, chainId |-> chainId]

\* the object createVoucher returns
SignedVoucher(key, domain, voucher) ==
  [voucher |-> voucher,
   signature |-> signMessage(key, encodeDigest(domain, voucher)),
   digest |-> encodeDigest(domain, voucher)]

(***************************************************************************)
(* contracts/LazyNFT.sol: _hash and _verify                                *)
(***************************************************************************)
_voucherSignatureABI == keccak256("NFTVoucher(uint256 tokenId,uint256 minPrice,string uri))")

\* EIP712._domainSeparatorV4() of the instance constructed with
\* EIP712("LazyNFT-Voucher", "1"), deployed at address this on chain chainid
\* mutant: the separator computed once for one deployment and reused everywhere
_domainSeparatorV4Fixed(chainid, this) ==
  keccak256(Words5(keccak256(EIP712DomainType),
                   keccak256("LazyNFT-Voucher"),
                   keccak256("1"),
                   uint256(block_chainid),
                   address(CONTRACT)))

_domainSeparatorV4(chainid, this) ==
  keccak256(Words5(keccak256(EIP712DomainType),
                   keccak256("LazyNFT-Voucher"),
                   keccak256("1"),
                   uint256(chainid),
                   address(this)))

_hashTypedDataV4(chainid, this, structHash) ==
  TypedDataHash(_domainSeparatorV4(chainid, this), structHash)

\* mutant: the uri is left out of the struct hash
_hashWithoutUri(chainid, this, voucher) ==
  _hashTypedDataV4(chainid, this,
    keccak256(Words4(_voucherSignatureABI,
                     uint256(voucher.tokenId),
                     uint256(voucher.minPrice),
                     DynamicBytes(""))))

_hash(chainid, this, voucher) ==
  _hashTypedDataV4(chainid, this,
    keccak256(Words4(_voucherSignatureABI,
                     uint256(voucher.tokenId),
                     uint256(voucher.minPrice),
                     DynamicBytes(voucher.uri))))

\* a signature made with the raw signing primitive over a 32-byte hash
signDigest(key, hash) == [by |-> key, over |-> hash, len |-> 65]
EmptyBytes == [by |-> "", over |-> "", len |-> 0]

InvalidSignatureLength == "ECDSA: invalid signature length"

\* the address recovered from a well-formed signature made over another hash:
\* an address nobody holds the key of, and that was given no role
Nobody == "0x????"

\* mutant: the signer's address is recovered whatever hash was signed
ECDSA_recoverAnyHash(hash, signature) ==
  IF signature.len # 65
    THEN [ok |-> FALSE, err |-> InvalidSignatureLength, signer |-> ZERO]
    ELSE [ok |-> TRUE, err |-> "", signer |-> signature.by]

\* ECDSA.recover(hash, signature)
ECDSA_recover(hash, signature) ==
  IF signature.len # 65
    THEN [ok |-> FALSE, err |-> InvalidSignatureLength, signer |-> ZERO]
    ELSE IF signature.over = hash
      THEN [ok |-> TRUE, err |-> "", signer |-> signature.by]
      ELSE [ok |-> TRUE, err |-> "", signer |-> Nobody]

\* the digests _hash computes in the deployment at CONTRACT on block_chainid
\* (f @@ <<>> is f, held as an explicit table of its values)
Digests == [voucher \in Vouchers |-> _hash(block_chainid, CONTRACT, voucher)] @@ <<>>

_verify(voucher, signature) == ECDSA_recover(Digests[voucher], signature)

(***************************************************************************)
(* lib/index.js: LazyMinter, one instance, constructed with                *)
(* contractAddress = CONTRACT and signer = the key of the contract's       *)
(* minter.  Each createVoucher call runs up to its next await in one step. *)
(***************************************************************************)
Slots == 1..MaxCalls
NoVoucher == [tokenId |-> 0, minPrice |-> 0, uri |-> ""]
Idle == [pc |-> "idle", voucher |-> NoVoucher, domain |-> <<>>, digest |-> "",
         signature |-> EmptyBytes]
\* a rejected call: its locals are gone
Failed == [pc |-> "failed", voucher |-> NoVoucher, domain |-> <<>>, digest |-> "",
           signature |-> EmptyBytes]

\* createVoucher up to its first await that leaves the event loop: with a cached
\* domain that is signMessage, otherwise the getChainId of _signingDomain
createVoucher(c, tokenId, uri, minPrice) ==
  /\ calls[c].pc = "idle"
  /\ \A b \in Slots : b < c => calls[b].pc # "idle"
  /\ LET voucher == [tokenId |-> tokenId, minPrice |-> minPrice, uri |-> uri] IN
       IF _domain # <<>>
         THEN /\ calls' = [calls EXCEPT ![c] =
                   [pc |-> "signing", voucher |-> voucher, domain |-> _domain,
                    digest |-> encodeDigest(_domain[1], voucher), signature |-> EmptyBytes]]
              /\ fetches' = fetches
         ELSE /\ calls' = [calls EXCEPT ![c] =
                   [pc |-> "fetching", voucher |-> voucher, domain |-> <<>>,
                    digest |-> "", signature |-> EmptyBytes]]
              /\ fetches' = fetches + 1
  /\ UNCHANGED <<_domain, chainVars>>

\* getChainId resolves: _signingDomain stores the domain, _formatVoucher wraps it,
\* createVoucher computes the digest and asks the signer for the signature
_signingDomain(c, chainId) ==
  /\ calls[c].pc = "fetching"
  /\ _domain' = <<SigningDomain(CONTRACT, chainId)>>
  /\ calls' = [calls EXCEPT ![c].pc = "signing",
                            ![c].domain = <<SigningDomain(CONTRACT, chainId)>>,
                            ![c].digest = encodeDigest(SigningDomain(CONTRACT, chainId), calls[c].voucher)]
  /\ UNCHANGED <<fetches, chainVars>>

\* getChainId rejects: the rejection propagates out of createVoucher
getChainIdRejects(c) ==
  /\ calls[c].pc = "fetching"
  /\ calls' = [calls EXCEPT ![c] = Failed]
  /\ UNCHANGED <<_domain, fetches, chainVars>>

\* signMessage resolves: createVoucher returns {voucher, signature, digest}
signMessageResolves(c) ==
  /\ calls[c].pc = "signing"
  /\ calls' = [calls EXCEPT ![c].pc = "done",
                            ![c].signature = signMessage(minter, calls[c].digest)]
  /\ UNCHANGED <<_domain, fetches, chainVars>>

signMessageRejects(c) ==
  /\ calls[c].pc = "signing"
  /\ calls' = [calls EXCEPT ![c] = Failed]
  /\ UNCHANGED <<_domain, fetches, chainVars>>

(***************************************************************************)
(* contracts/LazyNFT.sol: redeem.  A world is the ledger state a call can  *)
(* change; a reverted call leaves the world it started from.               *)
(***************************************************************************)
MINTER_ROLE == keccak256("MINTER_ROLE")

\* mutant: the role check passes for every account
hasRoleAnyone(r, role, account) == TRUE

hasRole(r, role, account) == <<role, account>> \in r

UnauthorizedSigner == "Signature was not produced by authorized minter"
InsufficientPayment == "Insufficient funds to redeem"
DuplicateIdentifier == "ERC721: token already minted"
MintToZero == "ERC721: mint to the zero address"
URIOfNonexistent == "ERC721URIStorage: URI set of nonexistent token"
TransferNotOwn == "ERC721: transfer of token that is not own"
TransferToZero == "ERC721: transfer to the zero address"
\* address.transfer to an account that rejects the value reverts with no reason
TransferFailed == ""

\* mutant: the comparison is strict
coversMinPriceStrict(value, minPrice) == value > minPrice

\* msg.value >= voucher.minPrice
coversMinPrice(value, minPrice) == value >= minPrice

Step(ok, err, w) == [ok |-> ok, err |-> err, w |-> w]

\* emit Transfer(from, to, tokenId): appended to the log of the running call
Transfer(w, from, to, tokenId) == Append(w.events, <<from, to, tokenId>>)

\* mutant: no check that the token does not exist yet
_mintUnchecked(w, to, tokenId) ==
  IF to = ZERO THEN [ok |-> FALSE, err |-> MintToZero, w |-> w]
  ELSE [ok |-> TRUE, err |-> "",
        w |-> [w EXCEPT !.owners[tokenId] = to, !.events = Transfer(w, ZERO, to, tokenId)]]

\* mutant: the existence check compares with the new owner instead of ZERO
_mintChecksOwner(w, to, tokenId) ==
  IF to = ZERO THEN [ok |-> FALSE, err |-> MintToZero, w |-> w]
  ELSE IF w.owners[tokenId] = to THEN [ok |-> FALSE, err |-> DuplicateIdentifier, w |-> w]
  ELSE [ok |-> TRUE, err |-> "",
        w |-> [w EXCEPT !.owners[tokenId] = to, !.events = Transfer(w, ZERO, to, tokenId)]]

\* ERC721._mint(to, tokenId)
_mint(w, to, tokenId) ==
  IF to = ZERO THEN Step(FALSE, MintToZero, w)
  ELSE IF w.owners[tokenId] # ZERO THEN Step(FALSE, DuplicateIdentifier, w)
  ELSE Step(TRUE, "", [w EXCEPT !.owners[tokenId] = to,
                            !.events = Transfer(w, ZERO, to, tokenId)])

\* ERC721URIStorage._setTokenURI(tokenId, uri)
_setTokenURI(w, tokenId, uri) ==
  IF w.owners[tokenId] = ZERO THEN Step(FALSE, URIOfNonexistent, w)
  ELSE Step(TRUE, "", [w EXCEPT !.tokenURIs[tokenId] = uri])

\* mutant: the refusal to transfer to the zero address carries no reason
_transferSilent(w, from, to, tokenId) ==
  IF w.owners[tokenId] # from THEN Step(FALSE, TransferNotOwn, w)
  ELSE IF to = ZERO THEN Step(FALSE, "", w)
  ELSE Step(TRUE, "", [w EXCEPT !.owners[tokenId] = to,
                            !.events = Transfer(w, from, to, tokenId)])

\* ERC721._transfer(from, to, tokenId)
_transfer(w, from, to, tokenId) ==
  IF w.owners[tokenId] # from THEN Step(FALSE, TransferNotOwn, w)
  ELSE IF to = ZERO THEN Step(FALSE, TransferToZero, w)
  ELSE Step(TRUE, "", [w EXCEPT !.owners[tokenId] = to,
                            !.events = Transfer(w, from, to, tokenId)])

\* mutant: the value is not forwarded and stays in the contract
transferNothing(w, creator, amount) ==
  IF creator \notin Payable \/ w.balances[CONTRACT] < amount THEN Step(FALSE, TransferFailed, w)
  ELSE Step(TRUE, "", w)

\* creator.transfer(amount), paid from the contract's balance
transfer(w, creator, amount) ==
  IF creator \notin Payable \/ w.balances[CONTRACT] < amount THEN Step(FALSE, TransferFailed, w)
  ELSE Step(TRUE, "",
            [w EXCEPT !.balances = [a \in Accounts |->
                 IF a = CONTRACT /\ a = creator THEN w.balances[a]
                 ELSE IF a = CONTRACT THEN w.balances[a] - amount
                 ELSE IF a = creator THEN w.balances[a] + amount
                 ELSE w.balances[a]]])

\* the call arrives: msg.value moves from msg.sender to the contract
receive(w, sender, value) ==
  [w EXCEPT !.balances = [a \in Accounts |->
       IF a = sender THEN w.balances[a] - value
       ELSE IF a = CONTRACT THEN w.balances[a] + value
       ELSE w.balances[a]]]

Outcome(ok, err, ret, signer, w, steps) ==
  [ok |-> ok, err |-> err, ret |-> ret, signer |-> signer, w |-> w, steps |-> steps]

\* mutant: a failure stops the call and keeps what it had done
revertKeeps(pre, w, err, signer, steps) == Outcome(FALSE, err, 0, signer, w, steps)

\* a failed require, a revert inside a library call or a failed value transfer:
\* the transaction reverts to the world before the call (pre); w is the world
\* the call had built when it failed
revert(pre, w, err, signer, steps) == Outcome(FALSE, err, 0, signer, pre, steps)

\* mutant: the token is minted to the redeemer, without a transfer
redeemMintsToRedeemer(r, pre, sender, value, redeemer, voucher, signature) ==
  LET w0 == receive(pre, sender, value)
      v == _verify(voucher, signature)
      signer == v.signer
      m == _mint(w0, redeemer, voucher.tokenId)
      u == _setTokenURI(m.w, voucher.tokenId, voucher.uri)
      p == transfer(u.w, signer, value)
  IN
  IF ~v.ok THEN revert(pre, w0, v.err, ZERO, <<"_verify">>)
  ELSE IF ~hasRole(r, MINTER_ROLE, signer)
    THEN revert(pre, w0, UnauthorizedSigner, signer, <<"_verify", "hasRole">>)
  ELSE IF ~coversMinPrice(value, voucher.minPrice)
    THEN revert(pre, w0, InsufficientPayment, signer, <<"_verify", "hasRole", "minPrice">>)
  ELSE IF ~m.ok
    THEN revert(pre, m.w, m.err, signer, <<"_verify", "hasRole", "minPrice", "_mint">>)
  ELSE IF ~u.ok
    THEN revert(pre, u.w, u.err, signer,
                <<"_verify", "hasRole", "minPrice", "_mint", "_setTokenURI">>)
  ELSE IF ~p.ok
    THEN revert(pre, p.w, p.err, signer,
                <<"_verify", "hasRole", "minPrice", "_mint", "_setTokenURI", "transfer">>)
  ELSE Outcome(TRUE, "", voucher.tokenId, signer, p.w,
               <<"_verify", "hasRole", "minPrice", "_mint", "_setTokenURI", "transfer">>)

\* mutant: the payment check runs before the authorization check
redeemPaymentFirst(r, pre, sender, value, redeemer, voucher, signature) ==
  LET w0 == receive(pre, sender, value)
      v == _verify(voucher, signature)
      signer == v.signer
      m == _mint(w0, signer, voucher.tokenId)
      u == _setTokenURI(m.w, voucher.tokenId, voucher.uri)
      t == _transfer(u.w, signer, redeemer, voucher.tokenId)
      p == transfer(t.w, signer, value)
  IN
  IF ~v.ok THEN revert(pre, w0, v.err, ZERO, <<"_verify">>)
  ELSE IF ~coversMinPrice(value, voucher.minPrice)
    THEN revert(pre, w0, InsufficientPayment, signer, <<"_verify", "minPrice">>)
  ELSE IF ~hasRole(r, MINTER_ROLE, signer)
    THEN revert(pre, w0, UnauthorizedSigner, signer, <<"_verify", "minPrice", "hasRole">>)
  ELSE IF ~m.ok
    THEN revert(pre, m.w, m.err, signer, <<"_verify", "minPrice", "hasRole", "_mint">>)
  ELSE IF ~u.ok
    THEN revert(pre, u.w, u.err, signer,
                <<"_verify", "minPrice", "hasRole", "_mint", "_setTokenURI">>)
  ELSE IF ~t.ok
    THEN revert(pre, t.w, t.err, signer,
                <<"_verify", "minPrice", "hasRole", "_mint", "_setTokenURI", "_transfer">>)
  ELSE IF ~p.ok
    THEN revert(pre, p.w, p.err, signer,
                <<"_verify", "minPrice", "hasRole", "_mint", "_setTokenURI", "_transfer", "transfer">>)
  ELSE Outcome(TRUE, "", voucher.tokenId, signer, p.w,
               <<"_verify", "minPrice", "hasRole", "_mint", "_setTokenURI", "_transfer", "transfer">>)

redeem(r, pre, sender, value, redeemer, voucher, signature) ==
  LET w0 == receive(pre, sender, value)
      v == _verify(voucher, signature)
      signer == v.signer
      m == _mint(w0, signer, voucher.tokenId)
      u == _setTokenURI(m.w, voucher.tokenId, voucher.uri)
      t == _transfer(u.w, signer, redeemer, voucher.tokenId)
      p == transfer(t.w, signer, value)
  IN
  IF ~v.ok THEN revert(pre, w0, v.err, ZERO, <<"_verify">>)
  ELSE IF ~hasRole(r, MINTER_ROLE, signer)
    THEN revert(pre, w0, UnauthorizedSigner, signer, <<"_verify", "hasRole">>)
  ELSE IF ~coversMinPrice(value, voucher.minPrice)
    THEN revert(pre, w0, InsufficientPayment, signer, <<"_verify", "hasRole", "minPrice">>)
  ELSE IF ~m.ok
    THEN revert(pre, m.w, m.err, signer, <<"_verify", "hasRole", "minPrice", "_mint">>)
  ELSE IF ~u.ok
    THEN revert(pre, u.w, u.err, signer,
                <<"_verify", "hasRole", "minPrice", "_mint", "_setTokenURI">>)
  ELSE IF ~t.ok
    THEN revert(pre, t.w, t.err, signer,
                <<"_verify", "hasRole", "minPrice", "_mint", "_setTokenURI", "_transfer">>)
  ELSE IF ~p.ok
    THEN revert(pre, p.w, p.err, signer,
                <<"_verify", "hasRole", "minPrice", "_mint", "_setTokenURI", "_transfer", "transfer">>)
  ELSE Outcome(TRUE, "", voucher.tokenId, signer, p.w,
               <<"_verify", "hasRole", "minPrice", "_mint", "_setTokenURI", "_transfer", "transfer">>)

\* the ledger state a call starts from; its event log starts empty
World == [owners |-> owners, tokenURIs |-> tokenURIs, balances |-> balances, events |-> <<>>]

NoCall ==
  [op |-> "none", sender |-> ZERO, value |-> 0, redeemer |-> ZERO, voucher |-> NoVoucher,
   signature |-> EmptyBytes, ok |-> FALSE, err |-> "", ret |-> 0, signer |-> ZERO,
   steps |-> <<>>, events |-> <<>>]

\* who sends redeem transactions, and whom they name as redeemer
Senders == {Buyer, Issuer}
Redeemers == {Buyer, Issuer, ZERO}

\* three vouchers that differ from v in exactly one field: the next tokenId,
\* the next minPrice, another uri
Tampered(v) ==
  {[v EXCEPT !.tokenId = (v.tokenId % MaxTokenId) + 1],
   [v EXCEPT !.minPrice = (v.minPrice + 1) % (MaxPrice + 1)],
   [v EXCEPT !.uri = CHOOSE u \in URIs : u # v.uri]}

\* what LazyMinter.createVoucher returns as signature for voucher v when its
\* signer holds key k and getChainId answered the contract's chain
IssuedSignature(k, v) == SignedVoucher(k, SigningDomain(CONTRACT, block_chainid), v).signature

\* a signature made by key k directly over the digest that the instance at
\* address this on chain chainid computes for voucher v
DirectSignature(k, chainid, this, v) == signDigest(k, _hash(chainid, this, v))

\* the signatures a caller may pass along with voucher v, when k is the minter
Signatures(k, v) ==
       {IssuedSignature(k, v)}
  \cup {DirectSignature(a, block_chainid, CONTRACT, v) : a \in {k, Buyer}}
  \cup {DirectSignature(k, c, CONTRACT, v) : c \in ChainIds \ {block_chainid}}
  \cup {DirectSignature(k, block_chainid, OTHER_CONTRACT, v)}
  \cup {DirectSignature(k, block_chainid, CONTRACT, x) : x \in Tampered(v)}
  \cup {IssuedSignature(k, x) : x \in Tampered(v)}
  \cup {EmptyBytes}

SignatureTable == [k \in {Issuer, Vault}, v \in Vouchers |-> Signatures(k, v)] @@ <<>>

\* one redeem transaction, committed or reverted as a whole
Redeem(sender, value, redeemer, voucher, signature) ==
  /\ value <= balances[sender]
  /\ \E out \in {redeem(roles, World, sender, value, redeemer, voucher, signature)} :
       /\ owners' = out.w.owners
       /\ tokenURIs' = out.w.tokenURIs
       /\ balances' = out.w.balances
       /\ redeemed' = IF out.ok /\ redeemed[voucher.tokenId] < 2
                        THEN [redeemed EXCEPT ![voucher.tokenId] = @ + 1]
                        ELSE redeemed
       /\ last' = [op |-> "redeem", sender |-> sender, value |-> value,
                   redeemer |-> redeemer, voucher |-> voucher, signature |-> signature,
                   ok |-> out.ok, err |-> out.err, ret |-> out.ret, signer |-> out.signer,
                   steps |-> out.steps, events |-> out.w.events]
       /\ untouched' = FALSE
  /\ UNCHANGED <<minter, roles, minterVars>>

\* ERC721.transferFrom(from, to, tokenId) sent by the token's owner
transferFrom(from, to, tokenId) ==
  /\ last.op = "none"
  /\ owners[tokenId] = from
  /\ from # ZERO
  /\ LET t == _transfer(World, from, to, tokenId) IN
       /\ t.ok
       /\ owners' = t.w.owners
  /\ last' = NoCall
  /\ UNCHANGED <<minter, roles, tokenURIs, balances, redeemed, untouched, minterVars>>

\* AccessControl.renounceRole(MINTER_ROLE, account) sent by account
renounceRole(account) ==
  /\ last.op = "none"
  /\ hasRole(roles, MINTER_ROLE, account)
  /\ roles' = roles \ {<<MINTER_ROLE, account>>}
  /\ last' = NoCall
  /\ UNCHANGED <<minter, owners, tokenURIs, balances, redeemed, untouched, minterVars>>

\* the sender has read the outcome of its call
Receipt ==
  /\ last.op = "redeem"
  /\ last' = NoCall
  /\ UNCHANGED <<minter, roles, owners, tokenURIs, balances, redeemed, untouched, minterVars>>

(***************************************************************************)
(* Specifications                                                          *)
(***************************************************************************)
\* constructor(minter): _setupRole(MINTER_ROLE, minter); nothing minted; the
\* buyer holds the funds.  The LazyMinter has made no call.
Init ==
  /\ minter \in {Issuer, Vault}
  /\ roles = {<<MINTER_ROLE, minter>>}
  /\ owners = [t \in TokenIds |-> ZERO]
  /\ tokenURIs = [t \in TokenIds |-> ""]
  /\ balances = [a \in Accounts |-> IF a = Buyer THEN InitialFunds ELSE 0]
  /\ redeemed = [t \in TokenIds |-> 0]
  /\ untouched = TRUE
  /\ last = NoCall
  /\ _domain = <<>>
  /\ calls = [c \in Slots |-> Idle]
  /\ fetches = 0

NextMinter ==
  \/ \E c \in Slots, v \in Vouchers : createVoucher(c, v.tokenId, v.uri, v.minPrice)
  \/ \E c \in Slots, chainId \in ChainIds : _signingDomain(c, chainId)
  \/ \E c \in Slots : getChainIdRejects(c)
  \/ \E c \in Slots : signMessageResolves(c)
  \/ \E c \in Slots : signMessageRejects(c)

Next ==
  \/ /\ last.op = "none"
     /\ \E v \in Vouchers : \E signature \in SignatureTable[minter, v] :
          \E sender \in Senders, value \in 0..InitialFunds, redeemer \in Redeemers :
            Redeem(sender, value, redeemer, v, signature)
  \/ Receipt
  \/ \E from \in Senders, to \in Senders, t \in TokenIds : transferFrom(from, to, t)
  \/ \E account \in {Issuer, Vault} : renounceRole(account)

\* the contract and its callers; the signatures of LazyMinter reach redeem as inputs
Spec == Init /\ [][Next]_vars

\* the LazyMinter alone: it shares no state with the contract
SpecMinter == Init /\ [][NextMinter]_vars

(***************************************************************************)
(* Properties                                                              *)
(***************************************************************************)
OwnDomain == SigningDomain(CONTRACT, block_chainid)

\* a step that is one redeem call
RedeemStep == last.op = "none" /\ last'.op = "redeem"

\* _verify recovered a signer from the voucher and signature of the last call
\* (last.signer stays ZERO when ECDSA.recover reverts)
Verified == last.signer # ZERO

\* the signer that _verify recovered in the last call holds MINTER_ROLE
AuthorizedCall == <<MINTER_ROLE, last.signer>> \in roles

\* C1: every voucher that createVoucher signs with the minter's key for the
\* contract's own domain verifies on chain to the address of that key
C1_RoundTrip ==
  \A c \in Slots :
    (calls[c].pc = "done" /\ calls[c].domain = <<OwnDomain>>) =>
      LET r == _verify(calls[c].voucher, calls[c].signature)
      IN r.ok /\ r.signer = minter

\* C2: the digest createVoucher computes for a voucher under a domain equals
\* the digest _hash computes for the same voucher on the chain and at the
\* address that the domain names
C2_EncoderAgreement ==
  \A c \in Slots :
    calls[c].pc \in {"signing", "done"} =>
      calls[c].digest = _hash(calls[c].domain[1].chainId,
                              calls[c].domain[1].verifyingContract, calls[c].voucher)

\* C3: a redeem call whose signature is well formed but whose recovered signer
\* does not hold MINTER_ROLE fails with the unauthorized-signer error and
\* creates no asset, whatever the value, the redeemer and the tokenId are
C3_AuthorizationGate ==
  [][(RedeemStep /\ Verified' /\ ~AuthorizedCall') =>
       /\ ~last'.ok
       /\ last'.err = UnauthorizedSigner
       /\ owners' = owners
       /\ tokenURIs' = tokenURIs]_vars

\* C3 witness: a voucher that the buyer signed itself, paid in full, for a token
\* that does not exist, was refused
C3_Witness ==
  /\ last.op = "redeem"
  /\ last.signature = DirectSignature(Buyer, block_chainid, CONTRACT, last.voucher)
  /\ last.value >= last.voucher.minPrice
  /\ owners[last.voucher.tokenId] = ZERO
  /\ last.redeemer = Buyer
  /\ last.err = UnauthorizedSigner

\* C4 as stated: every redeem call that attaches less than minPrice fails with
\* the insufficient-payment error and creates no asset; a call with an
\* authorized signer's voucher, a fresh tokenId and exactly minPrice succeeds
C4_Original ==
  [][RedeemStep =>
       /\ (last'.value < last'.voucher.minPrice =>
             ~last'.ok /\ last'.err = InsufficientPayment /\ owners' = owners)
       /\ (AuthorizedCall' /\ owners[last'.voucher.tokenId] = ZERO
             /\ last'.value = last'.voucher.minPrice => last'.ok)]_vars

\* C4 amended: a redeem call whose recovered signer holds MINTER_ROLE and that
\* attaches less than minPrice fails with the insufficient-payment error and
\* creates no asset; such a call with a fresh tokenId, a redeemer other than
\* the zero address, a signer that accepts value and exactly minPrice succeeds
C4_PaymentGate ==
  [][RedeemStep =>
       /\ (AuthorizedCall' /\ last'.value < last'.voucher.minPrice =>
             /\ ~last'.ok
             /\ last'.err = InsufficientPayment
             /\ owners' = owners
             /\ tokenURIs' = tokenURIs)
       /\ (/\ AuthorizedCall'
           /\ last'.signer \in Payable
           /\ last'.redeemer # ZERO
           /\ owners[last'.voucher.tokenId] = ZERO
           /\ last'.value = last'.voucher.minPrice
           => last'.ok /\ owners'[last'.voucher.tokenId] = last'.redeemer)]_vars

\* C4 witness: a voucher with a positive minPrice was redeemed for exactly it
C4_Witness ==
  /\ last.op = "redeem"
  /\ last.ok
  /\ last.voucher.minPrice > 0
  /\ last.value = last.voucher.minPrice

\* C5 as stated: once a tokenId is redeemed, a redeem of another voucher with
\* that tokenId fails with the duplicate-identifier error whether or not its
\* signature is valid, and the owner of the token is unchanged
C5_Original ==
  [][(/\ RedeemStep
      /\ owners[last'.voucher.tokenId] # ZERO
      /\ last'.voucher.uri # tokenURIs[last'.voucher.tokenId]) =>
       /\ ~last'.ok
       /\ last'.err = DuplicateIdentifier
       /\ owners'[last'.voucher.tokenId] = owners[last'.voucher.tokenId]]_vars

\* C5 amended: once a tokenId is redeemed, every redeem of a voucher with that
\* tokenId fails and leaves all owners unchanged; the error is the
\* duplicate-identifier error when the recovered signer holds MINTER_ROLE and
\* the value covers minPrice, and otherwise the error of the check that failed
\* before asset creation
C5_Uniqueness ==
  [][(RedeemStep /\ owners[last'.voucher.tokenId] # ZERO) =>
       /\ ~last'.ok
       /\ owners' = owners
       /\ IF AuthorizedCall' /\ last'.value >= last'.voucher.minPrice
            THEN last'.err = DuplicateIdentifier
            ELSE last'.err \in {InvalidSignatureLength, UnauthorizedSigner,
                                InsufficientPayment}]_vars

\* C5 witness: a second voucher for a redeemed tokenId, with another uri, was
\* refused as a duplicate
C5_Witness ==
  /\ last.op = "redeem"
  /\ last.err = DuplicateIdentifier
  /\ redeemed[last.voucher.tokenId] = 1
  /\ last.voucher.uri # tokenURIs[last.voucher.tokenId]

\* C6: a redeem call that fails, at whatever step, leaves owners, metadata
\* URIs and balances as they were before the call
C6_Atomicity ==
  [][(RedeemStep /\ ~last'.ok) =>
       /\ owners' = owners
       /\ tokenURIs' = tokenURIs
       /\ balances' = balances]_vars

\* C6 witness: a call failed at its last step, forwarding a positive value to
\* a signer that rejects it, after the token was created and transferred
C6_Witness ==
  /\ last.op = "redeem"
  /\ ~last.ok
  /\ last.value > 0
  /\ Len(last.steps) = 7
  /\ last.err = TransferFailed

\* C7: a redeem of a voucher that createVoucher signed with the key of an
\* account holding MINTER_ROLE, for a tokenId that does not exist, with value
\* >= minPrice, commits: the redeemer owns the token, its URI is the voucher's,
\* the signer's balance grew by the value, and the call returns the tokenId
\* (stated for a signer that accepts value, a redeemer other than the zero
\* address and a sender other than the signer)
C7_SuccessfulRedemption ==
  [][(/\ RedeemStep
      /\ last'.signature = IssuedSignature(minter, last'.voucher)
      /\ <<MINTER_ROLE, minter>> \in roles
      /\ minter \in Payable
      /\ last'.redeemer # ZERO
      /\ last'.sender # minter
      /\ owners[last'.voucher.tokenId] = ZERO
      /\ last'.value >= last'.voucher.minPrice) =>
       /\ last'.ok
       /\ owners'[last'.voucher.tokenId] = last'.redeemer
       /\ tokenURIs'[last'.voucher.tokenId] = last'.voucher.uri
       /\ balances'[minter] = balances[minter] + last'.value
       /\ last'.ret = last'.voucher.tokenId]_vars

\* C8: at most one redeem call commits per tokenId, over any sequence of
\* redeem calls and transfers
C8_NoReplay == \A t \in TokenIds : redeemed[t] <= 1

\* C8 witness: the voucher of a redeemed token, validly signed and paid with a
\* positive value, was submitted again after the token had moved on, and failed
C8_Witness ==
  /\ last.op = "redeem"
  /\ ~last.ok
  /\ last.err = DuplicateIdentifier
  /\ redeemed[last.voucher.tokenId] = 1
  /\ last.voucher.uri = tokenURIs[last.voucher.tokenId]
  /\ last.signature = DirectSignature(minter, block_chainid, CONTRACT, last.voucher)
  /\ last.value > 0
  /\ owners[last.voucher.tokenId] # last.redeemer

\* C9: a voucher that createVoucher signed with the key of an account that
\* holds MINTER_ROLE, and that was never submitted, is redeemed when it is
\* first submitted with sufficient payment
C9_Lifecycle ==
  [][(/\ RedeemStep
      /\ untouched
      /\ last'.signature = IssuedSignature(minter, last'.voucher)
      /\ <<MINTER_ROLE, minter>> \in roles
      /\ minter \in Payable
      /\ last'.redeemer # ZERO
      /\ last'.value >= last'.voucher.minPrice) => last'.ok]_vars

\* the signatures key k makes over voucher v for another chain or for another
\* contract address
CrossDomain ==
  [k \in {Issuer, Vault}, v \in Vouchers |->
     {DirectSignature(k, c, a, v) :
        <<c, a>> \in (ChainIds \X {CONTRACT, OTHER_CONTRACT}) \ {<<block_chainid, CONTRACT>>}}]
  @@ <<>>

\* C10: a voucher signed for another chainId or another verifyingContract is
\* never redeemed by this contract
C10_CrossDomain ==
  (last.op = "redeem" /\ last.ok) => last.signature \notin CrossDomain[minter, last.voucher]

\* C10 witness: a voucher the minter signed for another chain, in order in
\* every other respect, was refused
C10_Witness ==
  /\ last.op = "redeem"
  /\ \E c \in ChainIds \ {block_chainid} :
       last.signature = DirectSignature(minter, c, CONTRACT, last.voucher)
  /\ <<MINTER_ROLE, minter>> \in roles
  /\ minter \in Payable
  /\ last.redeemer = Buyer
  /\ last.value >= last.voucher.minPrice
  /\ owners[last.voucher.tokenId] = ZERO
  /\ ~last.ok

\* the signatures key k made, through createVoucher or directly over the
\* contract's digest, for a voucher that differs from v in exactly one field
Reused ==
  [k \in {Issuer, Vault}, v \in Vouchers |->
     UNION {{IssuedSignature(k, x), DirectSignature(k, block_chainid, CONTRACT, x)} :
              x \in Tampered(v)}] @@ <<>>

\* C11: a redeem call that presents a voucher together with the signature its
\* signer made for a voucher differing in one field (tokenId, minPrice or uri)
\* does not recover the original signer, and mints nothing (stated from the
\* outcome: a call that recovered the signer, or that minted, did not present
\* such a signature)
C11_TamperSensitivity ==
  (last.op = "redeem" /\ (last.signer = minter \/ last.ok)) =>
    last.signature \notin Reused[minter, last.voucher]

\* C11 witness: the minter's direct signature, reused with only the uri
\* changed in an otherwise redeemable call, recovered somebody else
C11_Witness ==
  /\ last.op = "redeem"
  /\ \E x \in Tampered(last.voucher) :
       /\ x.tokenId = last.voucher.tokenId
       /\ x.minPrice = last.voucher.minPrice
       /\ last.signature = DirectSignature(minter, block_chainid, CONTRACT, x)
  /\ <<MINTER_ROLE, minter>> \in roles
  /\ minter \in Payable
  /\ last.redeemer = Buyer
  /\ last.value >= last.voucher.minPrice
  /\ owners[last.voucher.tokenId] = ZERO
  /\ last.signer = Nobody

\* C12: over any interleaving of createVoucher calls on the instance, none of
\* which failed, signer.getChainId is requested at most once
C12_SingleFetch ==
  (\A c \in Slots : calls[c].pc # "failed") => fetches <= 1

\* C13: once this._domain is set, no step of any createVoucher call replaces
\* it with a domain of another chainId, and all vouchers the instance has
\* signed were signed under one domain
C13_CacheStability ==
  [][/\ (_domain # <<>> => _domain'[1].chainId = _domain[1].chainId)
     /\ \A b, c \in Slots :
          (calls'[b].pc = "done" /\ calls'[c].pc = "done") =>
            calls'[b].domain = calls'[c].domain]_vars

\* a step in which the pending await of call c rejects
Rejects(c, at) == calls[c].pc = at /\ calls'[c].pc = "failed"

\* C14: when getChainId rejects, the createVoucher call fails, holds no signed
\* voucher and the domain cache is unset after it; when signMessage rejects,
\* the call fails and holds no signed voucher; a call started while the cache
\* is unset fetches, and a call signs under no domain but the cached one
C14_HardFailures ==
  [][\A c \in Slots :
       /\ Rejects(c, "fetching") =>
            /\ calls'[c].signature = EmptyBytes
            /\ calls'[c].digest = ""
            /\ _domain' = <<>>
       /\ Rejects(c, "signing") =>
            /\ calls'[c].signature = EmptyBytes
            /\ calls'[c].digest = ""
            /\ _domain' = _domain
       /\ (calls[c].pc = "idle" /\ calls'[c].pc # "idle" /\ _domain = <<>>) =>
            /\ calls'[c].pc = "fetching"
            /\ fetches' = fetches + 1
       /\ (calls[c].pc # "signing" /\ calls'[c].pc = "signing") =>
            /\ _domain' # <<>>
            /\ calls'[c].domain = _domain']_vars

\* the step of redeem that reports error e, counted in the order of the code
\* (1 _verify, 2 hasRole, 3 minPrice, 4 _mint, 5 _setTokenURI, 6 _transfer,
\* 7 the value transfer); 0 for an error redeem never reports
FailingStep(e) ==
  CASE e = InvalidSignatureLength -> 1
    [] e = UnauthorizedSigner -> 2
    [] e = InsufficientPayment -> 3
    [] e = DuplicateIdentifier -> 4
    [] e = TransferToZero -> 6
    [] e = TransferFailed -> 7
    [] OTHER -> 0

\* the condition, on the state before the call and the call's arguments, that
\* error e names
Cause(e) ==
  CASE e = InvalidSignatureLength -> last'.signature.len # 65
    [] e = UnauthorizedSigner -> last'.signature.len = 65 /\ ~AuthorizedCall'
    [] e = InsufficientPayment -> last'.value < last'.voucher.minPrice
    [] e = DuplicateIdentifier -> owners[last'.voucher.tokenId] # ZERO
    [] e = TransferToZero -> last'.redeemer = ZERO
    [] e = TransferFailed -> last'.signer \notin Payable
    [] OTHER -> FALSE

CheckOrder ==
  <<"_verify", "hasRole", "minPrice", "_mint", "_setTokenURI", "_transfer", "transfer">>

\* the three checks of the last call pass
ChecksPass ==
  /\ last.signature.len = 65
  /\ AuthorizedCall
  /\ last.value >= last.voucher.minPrice

\* C16: the steps a redeem call runs are an initial part of the order above;
\* it reaches asset creation, and changes owners, URIs or balances, only when
\* the three checks pass; a call that violates several conditions fails with
\* the error of the earliest violated step
C16_CheckOrder ==
  [][RedeemStep =>
       /\ last'.steps = SubSeq(CheckOrder, 1, Len(last'.steps))
       /\ Len(last'.steps) >= 1
       /\ (Len(last'.steps) >= 4 => ChecksPass')
       /\ (owners' # owners \/ tokenURIs' # tokenURIs \/ balances' # balances
             \/ last'.events # <<>> => ChecksPass')
       /\ IF last'.signature.len # 65 THEN last'.err = InvalidSignatureLength
          ELSE IF ~AuthorizedCall' THEN last'.err = UnauthorizedSigner
          ELSE IF last'.value < last'.voucher.minPrice THEN last'.err = InsufficientPayment
          ELSE IF owners[last'.voucher.tokenId] # ZERO THEN last'.err = DuplicateIdentifier
          ELSE IF last'.redeemer = ZERO THEN last'.err = TransferToZero
          ELSE IF last'.signer \notin Payable THEN last'.err = TransferFailed
          ELSE last'.ok]_vars

\* C16 witness: a call with an unauthorized signer, too little value, a
\* tokenId that exists and the zero address as redeemer stopped at the
\* authorization check
C16_Witness ==
  /\ last.op = "redeem"
  /\ last.signature.len = 65
  /\ ~AuthorizedCall
  /\ last.value < last.voucher.minPrice
  /\ owners[last.voucher.tokenId] # ZERO
  /\ last.redeemer = ZERO
  /\ last.err = UnauthorizedSigner
  /\ last.steps = <<"_verify", "hasRole">>

\* C17: every redeem call that commits has emitted exactly two Transfer events
\* for the voucher's tokenId, first the creation for the recovered signer and
\* then the transfer from the signer to the redeemer, so the token's
\* ownership history starts with the signer, then the redeemer; the signer
\* holds MINTER_ROLE and the token ends with the redeemer
C17_ProvenanceOrder ==
  [][(RedeemStep /\ last'.ok) =>
       /\ last'.events = << <<ZERO, last'.signer, last'.voucher.tokenId>>,
                            <<last'.signer, last'.redeemer, last'.voucher.tokenId>> >>
       /\ AuthorizedCall'
       /\ owners[last'.voucher.tokenId] = ZERO
       /\ owners'[last'.voucher.tokenId] = last'.redeemer]_vars

\* C17 witness: a committed redeem whose redeemer is the signer itself
C17_Witness ==
  /\ last.op = "redeem"
  /\ last.ok
  /\ last.redeemer = last.signer
  /\ Len(last.events) = 2

\* C18: no token exists initially; a step that creates a token is a committed
\* redeem of a voucher with that tokenId whose signature was made, over the
\* contract's digest of exactly that voucher, by an account that holds
\* MINTER_ROLE when the call runs, with value >= minPrice, and it sets the
\* token's URI to the voucher's uri; no step removes a token or changes the
\* URI of an existing one.  So every existing token was created that way
C18_Unforgeability ==
  [][\A t \in TokenIds :
       IF owners[t] = ZERO
         THEN owners'[t] # ZERO =>
                /\ RedeemStep
                /\ last'.ok
                /\ last'.voucher.tokenId = t
                /\ last'.signature = signDigest(last'.signer, Digests[last'.voucher])
                /\ <<MINTER_ROLE, last'.signer>> \in roles
                /\ last'.value >= last'.voucher.minPrice
                /\ tokenURIs'[t] = last'.voucher.uri
         ELSE /\ owners'[t] # ZERO
              /\ tokenURIs'[t] = tokenURIs[t]]_vars

\* C18 witness: a token created for a positive price exists with its URI after
\* the call that created it, while its creator no longer holds the role
C18_Witness ==
  \E t \in TokenIds :
    /\ owners[t] = Issuer
    /\ redeemed[t] = 1
    /\ tokenURIs[t] \in URIs
    /\ balances[Issuer] > 0
    /\ roles = {}
    /\ last.op = "none"

\* the sum of the balances of all accounts
TotalBalance ==
  balances[Issuer] + balances[Vault] + balances[Buyer] + balances[CONTRACT]

\* C19: after any sequence of committed and failed redeem calls the contract
\* holds its initial balance (nothing), and the balances of all accounts add
\* up to what they added up to initially
C19_ValueConservation ==
  /\ balances[CONTRACT] = 0
  /\ TotalBalance = InitialFunds

\* C19 witness: a positive value was forwarded to the signer by one call, and a
\* later call that attached a positive value failed
C19_Witness ==
  /\ last.op = "redeem"
  /\ ~last.ok
  /\ last.value > 0
  /\ \E t \in TokenIds : redeemed[t] = 1
  /\ balances[minter] > 0

====
